---- MODULE Spec2Model ----
(***************************************************************************)
(* Model of fsmonitor.c: the fsmonitor index extension codec, the provider *)
(* query / refresh engine and the add / remove / tweak lifecycle.          *)
(*                                                                         *)
(* Strings are sequences of byte values (NUL = 0, '/' = 47, ...).  C       *)
(* offsets are 0-based; TLA+ sequences are 1-based, so byte i of a buffer  *)
(* b is b[i + 1].                                                          *)
(***************************************************************************)
EXTENDS Integers, Sequences, FiniteSets, TLC

VARIABLES
    istate,     \* struct index_state: the fields fsmonitor.c reads or writes
    settings,   \* r->settings.fsmonitor_mode and core.fsmonitorhookversion
    now,        \* the value the next getnanotime() call returns
    sb,         \* the strbuf write_fsmonitor_extension filled last
    last,       \* history: the last operation, its inputs and what it did
    reported    \* history: the positions of the entries whose paths the
                \* provider has reported in this session

vars == <<istate, settings, now, sb, last, reported>>

(***************************************************************************)
(* Bounds of the model.                                                    *)
(***************************************************************************)
MaxEntries == 2     \* most cache entries of an index
MaxSegs == 2        \* most NUL-separated segments of an enumerated response
MaxClock == 12      \* getnanotime() is not called once the clock is here

(***************************************************************************)
(* Bytes and byte strings.                                                 *)
(***************************************************************************)
NUL == 0
SLASH == 47

Str_a_slash == <<97, 47>>                   \* "a/"
Str_a_slash_b == <<97, 47, 98>>             \* "a/b"
Str_ab == <<97, 98>>                        \* "ab"
Str_T == <<84>>                             \* "T"
BuiltinFake == <<98, 117, 105, 108, 116, 105, 110, 58, 102, 97, 107, 101>>

\* A char * that is NULL.  No byte string equals it: bytes are 0..255.
NULL == <<-1>>

Max(a, b) == IF a > b THEN a ELSE b

\* strbuf_addf(&sb, "%"PRIu64, n): the decimal digits of n.
RECURSIVE Decimal(_)
Decimal(n) ==
    IF n < 10 THEN <<48 + n>>
    ELSE Decimal(n \div 10) \o <<48 + (n % 10)>>

\* The byte at C offset i of a strbuf whose content is buf.  buf[len] is the
\* NUL a strbuf keeps after its content; past it the memory is not the
\* buffer's content (or not the buffer at all), and also before it: the
\* byte read there is any byte, of which only "is it '/'" matters, so it is
\* SLASH when oob and NUL otherwise.
At(buf, i, oob) ==
    IF i >= 0 /\ i < Len(buf) THEN buf[i + 1]
    ELSE IF i = Len(buf) THEN NUL
    ELSE IF oob THEN SLASH ELSE NUL

\* TRUE when At(buf, i, _) reads outside the strbuf.
OutOfBuf(buf, i) == i < 0 \/ i > Len(buf)

\* The offset of the first NUL of buf at or after offset i; Len(buf), where
\* the NUL that ends a strbuf is, when the content has none.
NextNul(buf, i) ==
    IF \E j \in i..(Len(buf) - 1) : buf[j + 1] = NUL
    THEN CHOOSE j \in i..(Len(buf) - 1) :
            /\ buf[j + 1] = NUL
            /\ \A k \in i..(j - 1) : buf[k + 1] # NUL
    ELSE Max(i, Len(buf))

\* The C string starting at offset off of a strbuf: up to the first NUL.
CStr(buf, off) ==
    IF off >= Len(buf) THEN <<>>
    ELSE SubSeq(buf, off + 1, NextNul(buf, off))

\* starts_with(str, prefix)
starts_with(str, prefix) ==
    /\ Len(prefix) <= Len(str)
    /\ SubSeq(str, 1, Len(prefix)) = prefix

(***************************************************************************)
(* The index.                                                              *)
(***************************************************************************)
CE_FSMONITOR_VALID == "CE_FSMONITOR_VALID"
CE_REMOVE == "CE_REMOVE"
FSMONITOR_CHANGED == "FSMONITOR_CHANGED"

FSMONITOR_MODE_DISABLED == "DISABLED"
FSMONITOR_MODE_HOOK == "HOOK"
FSMONITOR_MODE_IPC == "IPC"

\* The paths an index may hold, in index (byte) order: "a/b" < "ab".
Names == <<Str_a_slash_b, Str_ab>>

\* The sorted name lists of at most MaxEntries entries.
NameLists ==
    { [k \in 1..Len(s) |-> Names[s[k]]] :
        s \in { t \in UNION { [1..n -> 1..Len(Names)] : n \in 0..MaxEntries } :
                \A k \in 1..(Len(t) - 1) : t[k] < t[k + 1] } }

cache_nr(is) == Len(is.cache)

\* ce->ce_flags & CE_FSMONITOR_VALID of the entry at C position i.
Valid(is, i) == CE_FSMONITOR_VALID \in is.cache[i + 1].ce_flags

ClearValid(cache, S) ==
    [k \in 1..Len(cache) |->
        IF (k - 1) \in S
        THEN [cache[k] EXCEPT !.ce_flags = @ \ {CE_FSMONITOR_VALID}]
        ELSE cache[k]]

\* index_name_pos(istate, name, len): the position of the entry called
\* name, negative when there is none.
index_name_pos(is, name) ==
    IF \E k \in 1..Len(is.cache) : is.cache[k].name = name
    THEN (CHOOSE k \in 1..Len(is.cache) : is.cache[k].name = name) - 1
    ELSE -1

(***************************************************************************)
(* Provider queries.  An answer is what one query returned: ok (the IPC    *)
(* send succeeded / the hook exited with status 0) and the bytes it left   *)
(* in query_result.  A failed query is taken to leave no bytes.            *)
(***************************************************************************)
HOOK_INTERFACE_VERSION1 == 1
HOOK_INTERFACE_VERSION2 == 2

\* fsmonitor_hook_version(): cfg is core.fsmonitorhookversion, cfg.set
\* telling whether git_config_get_int() found a value.
fsmonitor_hook_version(cfg) ==
    IF ~cfg.set THEN -1
    ELSE IF cfg.value = HOOK_INTERFACE_VERSION1
            \/ cfg.value = HOOK_INTERFACE_VERSION2
    THEN cfg.value
    ELSE -1

\* query_fsmonitor_hook(r, version, last_update, &query_result): the exit
\* status (0 on success) and the bytes capture_command() appended.
query_fsmonitor_hook(st, version, env) ==
    IF st.fsmonitor_mode # FSMONITOR_MODE_HOOK
    THEN [result |-> -1, out |-> <<>>]
    ELSE LET a == IF version = HOOK_INTERFACE_VERSION2 THEN env.v2 ELSE env.v1
         IN [result |-> IF a.ok THEN 0 ELSE 1, out |-> a.out]

\* fsmonitor_is_trivial_response(query_result)
fsmonitor_is_trivial_response(query_result) ==
    /\ Len(query_result) >= 3
    /\ SubSeq(query_result, Len(query_result) - 2, Len(query_result))
         = <<NUL, SLASH, NUL>>

(***************************************************************************)
(* fsmonitor_refresh_callback(istate, name), name = buf + bol.  Yields the *)
(* cache after the call and ub: whether name[len - 1] was read before the  *)
(* start of the buffer (an empty name at offset 0).                        *)
(***************************************************************************)
DirMatches(is, name) ==
    { i \in 0..(cache_nr(is) - 1) :
        Valid(is, i) /\ starts_with(is.cache[i + 1].name, name) }

\* FileMatches with "pos > 0" for "pos >= 0".
FileMatchesPositivePos(is, name) ==
    IF index_name_pos(is, name) > 0 THEN {index_name_pos(is, name)} ELSE {}

FileMatches(is, name) ==
    IF index_name_pos(is, name) >= 0 THEN {index_name_pos(is, name)} ELSE {}

\* Lines 204-229, with name = the C string at buf + bol.
RefreshCallbackNamed(is, buf, bol, name, oob) ==
    [cache |-> IF At(buf, bol + Len(name) - 1, oob) = SLASH
               THEN ClearValid(is.cache, DirMatches(is, name))
               ELSE ClearValid(is.cache, FileMatches(is, name)),
     ub |-> OutOfBuf(buf, bol + Len(name) - 1)]

fsmonitor_refresh_callback(is, buf, bol, oob) ==
    RefreshCallbackNamed(is, buf, bol, CStr(buf, bol), oob)

fsmonitor_force_update_threshold == 100

\* Lines 427-429 and 432-433: r holds the index state, bol, count and ub so
\* far, c is what the callback for buf + r.bol yields.
AfterCallback(r, c, bol) ==
    [is |-> [r.is EXCEPT !.cache = c.cache], bol |-> bol,
     count |-> r.count + 1, ub |-> r.ub \/ c.ub]

\* The body of the loop at lines 424-430 for one value of i.
ApplyByte(r, buf, i, oob) ==
    IF buf[i + 1] # NUL THEN r
    ELSE AfterCallback(r, fsmonitor_refresh_callback(r.is, buf, r.bol, oob),
                       i + 1)

\* The loop for i = lo..hi, in order.  The range is halved, and the first
\* half's count is looked at before the second half starts, only to bound
\* the depth of the evaluation: a count is never negative.
RECURSIVE ApplyRange(_, _, _, _, _)
RECURSIVE ApplyUpper(_, _, _, _, _)
ApplyRange(r, buf, lo, hi, oob) ==
    IF lo > hi THEN r
    ELSE IF lo = hi THEN ApplyByte(r, buf, lo, oob)
    ELSE ApplyUpper(ApplyRange(r, buf, lo, (lo + hi) \div 2, oob),
                    buf, ((lo + hi) \div 2) + 1, hi, oob)

ApplyUpper(left, buf, lo, hi, oob) ==
    IF left.count >= 0 THEN ApplyRange(left, buf, lo, hi, oob) ELSE left

\* Lines 431-434: the callback for a last name that has no NUL.
ApplyTail(r, buf, oob) ==
    IF r.bol < Len(buf)
    THEN AfterCallback(r, fsmonitor_refresh_callback(r.is, buf, r.bol, oob),
                       r.bol)
    ELSE r

\* Lines 423-434.
ApplyPaths(is, buf, bol, oob) ==
    ApplyTail(ApplyRange([is |-> is, bol |-> bol, count |-> 0, ub |-> FALSE],
                         buf, bol, Len(buf) - 1, oob),
              buf, oob)

\* The locals of refresh_fsmonitor after the query.
\* last_update is what getnanotime() returned at line 346, -1 when it was
\* not called.
Locals(hv, success, result, bol, token, calls, last_update) ==
    [hook_version |-> hv, query_success |-> success, query_result |-> result,
     bol |-> bol, last_update_token |-> token, calls |-> calls,
     last_update |-> last_update]

Call(version, ok) == [version |-> version, ok |-> ok]

\* Lines 297-336: the IPC query (version 0 in calls).
QueryIPC(is, env) ==
    IF env.ipc.ok
    THEN Locals(-1, TRUE, env.ipc.out, Len(CStr(env.ipc.out, 0)) + 1,
                CStr(env.ipc.out, 0), <<Call(0, TRUE)>>, -1)
    ELSE Locals(-1, FALSE, <<>>, 0, BuiltinFake, <<Call(0, FALSE)>>, -1)

\* Lines 361-379: the version 2 query succeeded; tok is last_update_token
\* after strbuf_addstr(&last_update_token, buf).
HookV2Succeeded(q, res, tok) ==
    Locals(IF q.hook_version < 0 THEN HOOK_INTERFACE_VERSION2
           ELSE q.hook_version,
           Len(tok) # 0, res,
           IF Len(tok) # 0 THEN Len(tok) + 1 ELSE q.bol,
           tok,
           Append(q.calls, Call(HOOK_INTERFACE_VERSION2, TRUE)), q.last_update)

\* Lines 380-384: the version 2 query failed.
HookV2Failed(q, res, t) ==
    IF q.hook_version < 0
    THEN Locals(HOOK_INTERFACE_VERSION1, FALSE, res, q.bol,
                IF Len(q.last_update_token) = 0 THEN Decimal(t)
                ELSE q.last_update_token,
                Append(q.calls, Call(HOOK_INTERFACE_VERSION2, FALSE)),
                q.last_update)
    ELSE Locals(q.hook_version, FALSE, res, q.bol, q.last_update_token,
                Append(q.calls, Call(HOOK_INTERFACE_VERSION2, FALSE)),
                q.last_update)

HookV2Answered(q, a, t) ==
    IF a.result = 0
    THEN HookV2Succeeded(q, q.query_result \o a.out,
                         q.last_update_token
                             \o CStr(q.query_result \o a.out, 0))
    ELSE HookV2Failed(q, q.query_result \o a.out, t)

\* Lines 356-385: the version 2 query of the hook.  q is the state of the
\* locals before it.
QueryHookV2(st, env, q, t) ==
    IF q.hook_version = -1 \/ q.hook_version = HOOK_INTERFACE_VERSION2
    THEN HookV2Answered(
             q, query_fsmonitor_hook(st, HOOK_INTERFACE_VERSION2, env), t)
    ELSE q

HookV1Answered(q, a) ==
    Locals(q.hook_version, a.result = 0, q.query_result \o a.out, q.bol,
           q.last_update_token,
           Append(q.calls, Call(HOOK_INTERFACE_VERSION1, a.result = 0)),
           q.last_update)

\* QueryHookV1 that also runs the hook when no query has succeeded yet.
QueryHookV1_Retry(st, env, q) ==
    IF q.hook_version = HOOK_INTERFACE_VERSION1 \/ ~q.query_success
    THEN HookV1Answered(
             q, query_fsmonitor_hook(st, HOOK_INTERFACE_VERSION1, env))
    ELSE q

\* Lines 387-391: the version 1 query of the hook.
QueryHookV1(st, env, q) ==
    IF q.hook_version = HOOK_INTERFACE_VERSION1
    THEN HookV1Answered(
             q, query_fsmonitor_hook(st, HOOK_INTERFACE_VERSION1, env))
    ELSE q

\* Lines 340-348: the locals before the hook is run; hv is what
\* fsmonitor_hook_version() returned, t what getnanotime() returned.
HookLocals(hv, t) ==
    Locals(hv, FALSE, <<>>, 0,
           IF hv = HOOK_INTERFACE_VERSION1 THEN Decimal(t) ELSE <<>>,
           <<>>, t)

\* Lines 340-399: hook mode.
QueryHook(is, st, env, t) ==
    IF is.fsmonitor_last_update # NULL
    THEN QueryHookV1(
             st, env,
             QueryHookV2(st, env,
                         HookLocals(fsmonitor_hook_version(st.hookcfg), t),
                         t))
    ELSE HookLocals(fsmonitor_hook_version(st.hookcfg), t)

\* BranchADone comparing the count before its last increment.
BranchADoneCountLate(r) ==
    [is |-> [r.is EXCEPT
               !.untracked = IF @.present
                             THEN [@ EXCEPT !.use_fsmonitor = TRUE] ELSE @,
               !.cache_changed =
                   IF r.count - 1 > fsmonitor_force_update_threshold
                   THEN @ \cup {FSMONITOR_CHANGED} ELSE @],
     count |-> r.count, ub |-> r.ub]

\* Lines 436-441, after the paths were applied (r).
BranchADone(r) ==
    [is |-> [r.is EXCEPT
               !.untracked = IF @.present
                             THEN [@ EXCEPT !.use_fsmonitor = TRUE] ELSE @,
               !.cache_changed =
                   IF r.count > fsmonitor_force_update_threshold
                   THEN @ \cup {FSMONITOR_CHANGED} ELSE @],
     count |-> r.count, ub |-> r.ub]

\* Lines 416-441: branch A, the paths of the response.
ApplyBranchA(is, q, oob) ==
    BranchADone(ApplyPaths(is, q.query_result, q.bol, oob))

\* ApplyBranchB that leaves the untracked cache as it is.
ApplyBranchBKeepUntracked(is) ==
    [is |-> [is EXCEPT
               !.cache = ClearValid(@, 0..(cache_nr(is) - 1)),
               !.cache_changed =
                   IF \E i \in 0..(cache_nr(is) - 1) : Valid(is, i)
                   THEN @ \cup {FSMONITOR_CHANGED} ELSE @],
     count |-> 0, ub |-> FALSE]

\* Lines 444-468: branch B, invalidate everything.
ApplyBranchB(is) ==
    [is |-> [is EXCEPT
               !.cache = ClearValid(@, 0..(cache_nr(is) - 1)),
               !.cache_changed =
                   IF \E i \in 0..(cache_nr(is) - 1) : Valid(is, i)
                   THEN @ \cup {FSMONITOR_CHANGED} ELSE @,
               !.untracked = IF @.present
                             THEN [@ EXCEPT !.use_fsmonitor = FALSE] ELSE @],
     count |-> 0, ub |-> FALSE]

\* What a refresh_fsmonitor call that returned at line 291 reports.
NotRun(is) ==
    [is |-> is, ran |-> FALSE, calls |-> <<>>, query_success |-> FALSE,
     query_result |-> <<>>, bol |-> 0, branch |-> "none", count |-> 0,
     ub |-> FALSE, last_update |-> -1, hook_version |-> -1, entry |-> is]

\* Lines 470-474, and what the call did: entry is the index state when
\* refresh_fsmonitor was called, q the locals after the query, a the index
\* state, count and ub after the branch taken.
RefreshDone(entry, q, a, branch, oob) ==
    [is |-> [a.is EXCEPT !.fsmonitor_last_update = q.last_update_token],
     ran |-> TRUE, calls |-> q.calls, query_success |-> q.query_success,
     query_result |-> q.query_result, bol |-> q.bol, branch |-> branch,
     count |-> a.count,
     ub |-> a.ub \/ (q.query_success /\ OutOfBuf(q.query_result, q.bol)),
     last_update |-> q.last_update, hook_version |-> q.hook_version, entry |-> entry]

\* Lines 401-474: apply_results.
apply_results(entry, is, q, oob) ==
    IF q.query_success /\ At(q.query_result, q.bol, oob) # SLASH
    THEN RefreshDone(entry, q, ApplyBranchA(is, q, oob), "A", oob)
    ELSE RefreshDone(entry, q, ApplyBranchB(is), "B", oob)

\* Lines 293-399: has_run_once is set and the provider queried.
RefreshBody(entry, is, st, env, t) ==
    apply_results(entry, is,
                  IF st.fsmonitor_mode = FSMONITOR_MODE_IPC
                  THEN QueryIPC(is, env) ELSE QueryHook(is, st, env, t),
                  env.oob)

\* refresh_fsmonitor without the fsmonitor_has_run_once test of line 290.
refresh_fsmonitor_EveryTime(is, st, env, t) ==
    IF st.fsmonitor_mode = FSMONITOR_MODE_DISABLED
    THEN NotRun(is)
    ELSE RefreshBody(is, [is EXCEPT !.fsmonitor_has_run_once = TRUE],
                     st, env, t)

\* refresh_fsmonitor(istate).  env holds the answers the provider would
\* give and oob; t is what getnanotime() returns.  The result holds the
\* index state on return (is) and what the call did.
refresh_fsmonitor(is, st, env, t) ==
    IF st.fsmonitor_mode = FSMONITOR_MODE_DISABLED
       \/ is.fsmonitor_has_run_once
    THEN NotRun(is)
    ELSE RefreshBody(is, [is EXCEPT !.fsmonitor_has_run_once = TRUE],
                     st, env, t)

(***************************************************************************)
(* The restored dirty bitmap: the set of its set bits and its bit_size.    *)
(***************************************************************************)
NoBitmap == [bits |-> {}, bit_size |-> -1]      \* fsmonitor_dirty == NULL

\* assert_index_minimum(istate, pos): TRUE when it calls BUG().
assert_index_minimum(is, pos) == pos > cache_nr(is)

\* fsmonitor_ewah_callback taking cache[pos + 1] for cache[pos].
fsmonitor_ewah_callback_NextEntry(is, S) ==
    [is EXCEPT !.cache = ClearValid(@, { pos + 1 : pos \in S })]

\* ewah_each_bit(fsmonitor_dirty, fsmonitor_ewah_callback, istate): the
\* callback clears CE_FSMONITOR_VALID of cache[pos] for every set bit.
fsmonitor_ewah_callback(is, S) ==
    [is EXCEPT !.cache = ClearValid(@, S)]

SetAllValid(cache) ==
    [k \in 1..Len(cache) |->
        [cache[k] EXCEPT !.ce_flags = @ \cup {CE_FSMONITOR_VALID}]]

(***************************************************************************)
(* The index extension.  A blob is a sequence of bytes; data[off] of the C *)
(* code is data[off + 1] here.                                             *)
(***************************************************************************)
INDEX_EXTENSION_VERSION1 == 1
INDEX_EXTENSION_VERSION2 == 2

\* put_be32(&w, v): the four bytes of v, most significant first.
put_be32(v) ==
    <<(v \div 16777216) % 256, (v \div 65536) % 256, (v \div 256) % 256,
      v % 256>>

\* get_be32(data + off)
get_be32(data, off) ==
    data[off + 1] * 16777216 + data[off + 2] * 65536
        + data[off + 3] * 256 + data[off + 4]

\* get_be64(data + off).  The model's timestamps are below 2^31: their
\* upper word is 0.
get_be64(data, off) ==
    (get_be32(data, off) * 65536) * 65536 + get_be32(data, off + 4)

\* ewah_set(bitmap, i) for each i of S in increasing order, on ewah_new():
\* bit_size ends one past the last bit set.
EwahOf(S) ==
    [bits |-> S,
     bit_size |-> IF S = {} THEN 0
                  ELSE 1 + CHOOSE m \in S : \A x \in S : x <= m]

\* ewah_serialize_strbuf(bitmap, sb): the bytes appended.  The encoding is
\* the bit_size word and then one byte per bit.
ewah_serialize(bm) ==
    put_be32(bm.bit_size)
        \o [i \in 1..bm.bit_size |-> IF (i - 1) \in bm.bits THEN 1 ELSE 0]

\* ewah_read_mmap(bitmap, data + off, len): ret is the number of bytes
\* read, negative when the len bytes do not hold a whole bitmap.
ewah_read_mmap(data, off, len) ==
    IF len < 4 \/ len < 4 + get_be32(data, off)
    THEN [ret |-> -1, bitmap |-> NoBitmap]
    ELSE [ret |-> 4 + get_be32(data, off),
          bitmap |-> [bits |-> { i \in 0..(get_be32(data, off) - 1) :
                                   data[off + 4 + i + 1] # 0 },
                      bit_size |-> get_be32(data, off)]]

\* What read_fsmonitor_extension yields: the index state and its return
\* value (0, or -1 for error()).
ReadResult(is, ret) == [is |-> is, ret |-> ret]

\* Lines 89-99: the bitmap is stored and its size checked.
ReadStore(is, bitmap) ==
    ReadResult([is EXCEPT
                  !.fsmonitor_dirty = bitmap,
                  !.bug = ~is.split_index
                          /\ assert_index_minimum(is, bitmap.bit_size)],
               0)

\* Lines 80-88: e is what ewah_read_mmap yields for the ewah_size bytes
\* after the size word.
ReadBitmapParsed(is, e, ewah_size) ==
    IF e.ret # ewah_size THEN ReadResult(is, -1)
    ELSE ReadStore(is, e.bitmap)

\* Lines 78-88: the token is stored, then the bitmap read from data + off.
ReadBitmap(is, data, off, token) ==
    ReadBitmapParsed([is EXCEPT !.fsmonitor_last_update = token],
                     ewah_read_mmap(data, off + 4, get_be32(data, off)),
                     get_be32(data, off))

\* read_fsmonitor_extension(istate, data, sz), data holding sz bytes.
read_fsmonitor_extension(is, data, sz) ==
    IF sz < 4 + 1 + 4 THEN ReadResult(is, -1)
    ELSE IF get_be32(data, 0) = INDEX_EXTENSION_VERSION1
    THEN ReadBitmap(is, data, 12, Decimal(get_be64(data, 4)))
    ELSE IF get_be32(data, 0) = INDEX_EXTENSION_VERSION2
    THEN ReadBitmap(is, data, 4 + Len(CStr(data, 4)) + 1, CStr(data, 4))
    ELSE ReadResult(is, -1)

\* The live entries' positions: entry i counts the entries before it that
\* are not CE_REMOVE.
Removed(is, i) == CE_REMOVE \in is.cache[i + 1].ce_flags

Skipped(is, i) == Cardinality({ j \in 0..(i - 1) : Removed(is, j) })

\* fill_fsmonitor_bitmap setting bit i for bit i - skipped.
fill_fsmonitor_bitmap_NoSkip(is) ==
    [is EXCEPT !.fsmonitor_dirty =
        EwahOf({ i \in 0..(cache_nr(is) - 1) :
                   ~Removed(is, i) /\ ~Valid(is, i) })]

\* fill_fsmonitor_bitmap(istate)
fill_fsmonitor_bitmap(is) ==
    [is EXCEPT !.fsmonitor_dirty =
        EwahOf({ i - Skipped(is, i) :
                   i \in { j \in 0..(cache_nr(is) - 1) :
                             ~Removed(is, j) /\ ~Valid(is, j) } })]

\* write_fsmonitor_extension(sb, istate): the index state after it and the
\* bytes appended to sb; is.bug when assert_index_minimum() called BUG().
write_fsmonitor_extension(is) ==
    IF ~is.split_index
       /\ assert_index_minimum(is, is.fsmonitor_dirty.bit_size)
    THEN [is |-> [is EXCEPT !.bug = TRUE], sb |-> <<>>]
    ELSE [is |-> [is EXCEPT !.fsmonitor_dirty = NoBitmap],
          sb |-> put_be32(INDEX_EXTENSION_VERSION2)
                   \o is.fsmonitor_last_update \o <<NUL>>
                   \o put_be32(Len(ewah_serialize(is.fsmonitor_dirty)))
                   \o ewah_serialize(is.fsmonitor_dirty)]

(***************************************************************************)
(* The lifecycle.  Each operator yields the index state on return (is),    *)
(* the refresh_fsmonitor calls it made, in order (refreshes), and how many *)
(* times it called getnanotime() (ticks).                                  *)
(***************************************************************************)
Ticks(r) == IF r.last_update >= 0 THEN 1 ELSE 0

Outcome(is, refreshes, ticks) ==
    [is |-> is, refreshes |-> refreshes, ticks |-> ticks]

\* A refresh_fsmonitor call r as the last step of an operation that had
\* made the calls before and ticks calls of getnanotime().
Refreshed(r, before, ticks) ==
    Outcome(r.is, Append(before, r), ticks + Ticks(r))

initialize_fsmonitor_last_update(is, t) ==
    [is EXCEPT !.fsmonitor_last_update = Decimal(t)]

\* AddReset without the loop of lines 518-519.
AddResetKeepFlags(is, t) ==
    [initialize_fsmonitor_last_update(is, t) EXCEPT
       !.cache_changed = @ \cup {FSMONITOR_CHANGED},
       !.untracked = IF @.present
                     THEN [@ EXCEPT !.use_fsmonitor = TRUE] ELSE @]

\* Lines 513-525 of add_fsmonitor.
AddReset(is, t) ==
    [initialize_fsmonitor_last_update(is, t) EXCEPT
       !.cache_changed = @ \cup {FSMONITOR_CHANGED},
       !.cache = ClearValid(@, 0..(Len(@) - 1)),
       !.untracked = IF @.present
                     THEN [@ EXCEPT !.use_fsmonitor = TRUE] ELSE @]

\* add_fsmonitor(istate), called by an operation that had made the
\* refresh_fsmonitor calls before and ticks calls of getnanotime().
add_fsmonitor(is, st, env, t, before, ticks) ==
    IF is.fsmonitor_last_update = NULL
    THEN Refreshed(refresh_fsmonitor(AddReset(is, t + ticks), st, env,
                                     t + ticks + 1),
                   before, ticks + 1)
    ELSE Outcome(is, before, ticks)

\* remove_fsmonitor with line 536 before the test of line 534.
remove_fsmonitor_AlwaysChanged(is) ==
    [is EXCEPT !.cache_changed = @ \cup {FSMONITOR_CHANGED},
               !.fsmonitor_last_update = NULL]

remove_fsmonitor(is) ==
    IF is.fsmonitor_last_update # NULL
    THEN [is EXCEPT !.cache_changed = @ \cup {FSMONITOR_CHANGED},
                    !.fsmonitor_last_update = NULL]
    ELSE is

\* Lines 561-562 without the ewah_free() and the assignment of NULL.
FreeDirty_Kept(o) == o

\* Lines 561-562.
FreeDirty(o) ==
    Outcome([o.is EXCEPT !.fsmonitor_dirty = NoBitmap], o.refreshes, o.ticks)

\* Lines 547-563 of tweak_fsmonitor: the restored bitmap is applied and
\* freed.  is.bug: assert_index_minimum() called BUG() and nothing after it
\* ran.
TweakBitmap(is, st, env, t) ==
    IF is.fsmonitor_dirty = NoBitmap
    THEN Outcome(is, <<>>, 0)
    ELSE IF st.fsmonitor_mode = FSMONITOR_MODE_DISABLED
    THEN FreeDirty(Outcome(is, <<>>, 0))
    ELSE IF assert_index_minimum(is, is.fsmonitor_dirty.bit_size)
    THEN Outcome([is EXCEPT !.cache = SetAllValid(@), !.bug = TRUE], <<>>, 0)
    ELSE FreeDirty(
             Refreshed(
                 refresh_fsmonitor(
                     fsmonitor_ewah_callback(
                         [is EXCEPT !.cache = SetAllValid(@)],
                         is.fsmonitor_dirty.bits),
                     st, env, t),
                 <<>>, 0))

\* Lines 565-568, b being what lines 547-563 yield.
TweakAttach(b, st, env, t) ==
    IF b.is.bug THEN b
    ELSE IF st.fsmonitor_mode # FSMONITOR_MODE_DISABLED
    THEN add_fsmonitor(b.is, st, env, t, b.refreshes, b.ticks)
    ELSE Outcome(remove_fsmonitor(b.is), b.refreshes, b.ticks)

tweak_fsmonitor(is, st, env, t) ==
    TweakAttach(TweakBitmap(is, st, env, t), st, env, t)

(***************************************************************************)
(* The provider's possible answers.                                        *)
(***************************************************************************)
Segs == {<<>>, <<SLASH>>, Str_a_slash, Str_ab}

\* k segments, each followed by a NUL.
RECURSIVE Terminated(_)
Terminated(k) ==
    IF k = 0 THEN {<<>>}
    ELSE { r \o s \o <<NUL>> : r \in Terminated(k - 1), s \in Segs }

\* The same without the NUL of the last segment.
Unterminated(k) ==
    IF k = 0 THEN {}
    ELSE { r \o s : r \in Terminated(k - 1), s \in Segs }

\* n copies of seg.
Rep(seg, n) == [i \in 1..(n * Len(seg)) |-> seg[((i - 1) % Len(seg)) + 1]]

\* Responses of about fsmonitor_force_update_threshold paths: a token and
\* then 100 or 101 times "ab".
BigResponses ==
    { Str_T \o <<NUL>> \o Rep(Str_ab \o <<NUL>>, n) :
        n \in {fsmonitor_force_update_threshold,
               fsmonitor_force_update_threshold + 1} }

Responses ==
    UNION { Terminated(k) \cup Unterminated(k) : k \in 0..MaxSegs }

Failed == [ok |-> FALSE, out |-> <<>>]
Answers == {Failed} \cup { [ok |-> TRUE, out |-> r] : r \in Responses }

\* The daemon may also answer with one of the big responses.
BigAnswers == Answers \cup { [ok |-> TRUE, out |-> r] : r \in BigResponses }

\* The answers one operation may get, by mode and configured hook version:
\* a version 1 query follows only a failed version 2 query or none.
Envs(st) ==
    LET hv == fsmonitor_hook_version(st.hookcfg)
        V2 == IF st.fsmonitor_mode = FSMONITOR_MODE_HOOK /\ hv # 1
              THEN Answers ELSE {Failed}
        V1(a2) == IF st.fsmonitor_mode = FSMONITOR_MODE_HOOK
                     /\ (hv = 1 \/ (hv = -1 /\ ~a2.ok))
                  THEN Answers ELSE {Failed}
        IPC == IF st.fsmonitor_mode = FSMONITOR_MODE_IPC
               THEN BigAnswers ELSE {Failed}
    IN UNION { { [ipc |-> a0, v2 |-> a2, v1 |-> a1, oob |-> o] :
                   a0 \in IPC, a1 \in V1(a2), o \in BOOLEAN } : a2 \in V2 }

NoEnv == [ipc |-> Failed, v2 |-> Failed, v1 |-> Failed, oob |-> FALSE]

\* env names nothing the operation did not consume.
Called(refreshes, version) ==
    \E k \in 1..Len(refreshes) :
        \E c \in 1..Len(refreshes[k].calls) :
            refreshes[k].calls[c].version = version

Consumed(env, refreshes) ==
    /\ Called(refreshes, 0) \/ env.ipc = Failed
    /\ Called(refreshes, HOOK_INTERFACE_VERSION2) \/ env.v2 = Failed
    /\ Called(refreshes, HOOK_INTERFACE_VERSION1) \/ env.v1 = Failed
    /\ (\E k \in 1..Len(refreshes) : refreshes[k].ub) \/ ~env.oob

\* The answers to choose among for an operation that, given no answer,
\* makes the refresh_fsmonitor calls probe: none when it queries nothing.
EnvsFor(st, probe) ==
    IF \E k \in 1..Len(probe) : probe[k].calls # <<>>
    THEN Envs(st) ELSE {NoEnv}

(***************************************************************************)
(* The state machine.                                                      *)
(***************************************************************************)
Modes == {FSMONITOR_MODE_DISABLED, FSMONITOR_MODE_HOOK, FSMONITOR_MODE_IPC}

HookConfigs ==
    {[set |-> FALSE, value |-> 0]}
      \cup { [set |-> TRUE, value |-> v] : v \in 1..3 }

\* The caches of an index: sorted names, any CE_FSMONITOR_VALID bits.
Caches ==
    UNION { { [k \in 1..Len(names) |->
                 [name |-> names[k],
                  ce_flags |-> IF k \in V THEN {CE_FSMONITOR_VALID} ELSE {}]] :
              V \in SUBSET (1..Len(names)) } : names \in NameLists }

\* The index states of a session's start: nothing restored, nothing run.
Fresh(cache, untracked, split) ==
    [cache |-> cache, fsmonitor_last_update |-> NULL,
     fsmonitor_dirty |-> NoBitmap, fsmonitor_has_run_once |-> FALSE,
     cache_changed |-> {}, untracked |-> untracked, split_index |-> split,
     bug |-> FALSE]

History(op, env, refreshes, pre, ret, data) ==
    [op |-> op, env |-> env, refreshes |-> refreshes, pre |-> pre,
     ret |-> ret, data |-> data]

Init ==
    /\ settings \in { s \in [fsmonitor_mode : Modes, hookcfg : HookConfigs] :
                        s.fsmonitor_mode # FSMONITOR_MODE_HOOK
                            => ~s.hookcfg.set }
    /\ istate \in
         { Fresh(c, [present |-> u, use_fsmonitor |-> FALSE], FALSE) :
             c \in Caches, u \in BOOLEAN }
    /\ now = 10
    /\ sb = <<>>
    /\ last = History("init", NoEnv, <<>>, istate, 0, <<>>)
    /\ reported = {}

\* The paths of a response: the NUL-separated strings of buf from offset
\* from on.
ResponsePaths(buf, from) ==
    { CStr(buf, j) :
        j \in { k \in from..(Len(buf) - 1) : k = from \/ buf[k] = NUL } }

\* Where the paths of the response of the refresh_fsmonitor call r start:
\* after the token, which a version 1 hook does not send.
PathsFrom(r) ==
    IF r.calls[Len(r.calls)].version = HOOK_INTERFACE_VERSION1 THEN 0
    ELSE Len(CStr(r.query_result, 0)) + 1

\* TRUE when the call r received a response: its last query succeeded.
Received(r) ==
    r.ran /\ r.calls # <<>> /\ r.calls[Len(r.calls)].ok

\* The positions of the entries whose paths the responses of the calls
\* refreshes name.
ReportedBy(refreshes) ==
    UNION { { i \in 0..(cache_nr(refreshes[k].entry) - 1) :
                Received(refreshes[k])
                /\ refreshes[k].entry.cache[i + 1].name
                      \in ResponsePaths(refreshes[k].query_result,
                                        PathsFrom(refreshes[k])) } :
            k \in 1..Len(refreshes) }

\* One operation op that, given the answers env, yields the outcome o.
Step(op, env, o) ==
    /\ Consumed(env, o.refreshes)
    /\ istate' = o.is
    /\ now' = now + o.ticks
    /\ last' = History(op, env, o.refreshes, istate, 0, <<>>)
    /\ reported' = reported \cup ReportedBy(o.refreshes)
    /\ UNCHANGED <<settings, sb>>

Ready == ~istate.bug /\ now < MaxClock

\* The extension blobs an index file may hold: version 2 with the token "T"
\* and a bitmap of at most MaxEntries + 1 bits, version 1 with the
\* timestamp 7 and an empty bitmap.
StoredBitmaps ==
    { EwahOf(S) : S \in SUBSET (0..(MaxEntries - 1)) }
        \cup { EwahOf({MaxEntries}) }

BlobV2(token, bm) ==
    put_be32(INDEX_EXTENSION_VERSION2) \o token \o <<NUL>>
        \o put_be32(Len(ewah_serialize(bm))) \o ewah_serialize(bm)

BlobV1(timestamp, bm) ==
    put_be32(INDEX_EXTENSION_VERSION1) \o put_be32(0) \o put_be32(timestamp)
        \o put_be32(Len(ewah_serialize(bm))) \o ewah_serialize(bm)

Blobs ==
    { BlobV2(Str_T, bm) : bm \in StoredBitmaps }
        \cup { BlobV1(7, EwahOf({})) }

\* The read result rr of the blob data becomes the state.
ReadStep(op, data, rr) ==
    /\ istate' = rr.is
    /\ last' = History(op, NoEnv, <<>>, istate, rr.ret, data)
    /\ UNCHANGED <<settings, now, sb, reported>>

\* The index is loaded: its fsmonitor extension is read before anything
\* else is done with the index, when no entry has CE_FSMONITOR_VALID yet
\* (the bit is not stored in the index file) and after split_index was set
\* for a split index.  A split index is tried where it makes a difference:
\* with a bitmap that a plain index rejects.
LoadedAs(data) ==
    { split \in BOOLEAN :
        split => read_fsmonitor_extension(istate, data, Len(data)).is.bug }

ReadExt ==
    /\ Ready
    /\ last.op = "init"
    /\ \A i \in 0..(cache_nr(istate) - 1) : ~Valid(istate, i)
    /\ \E data \in Blobs :
         \E split \in LoadedAs(data) :
             ReadStep("read", data,
                      read_fsmonitor_extension(
                          [istate EXCEPT !.split_index = split],
                          data, Len(data)))

Refresh ==
    /\ Ready
    /\ \E env \in EnvsFor(settings,
                         <<refresh_fsmonitor(istate, settings, NoEnv, now)>>) :
         Step("refresh", env,
              Refreshed(refresh_fsmonitor(istate, settings, env, now),
                        <<>>, 0))

Add ==
    /\ Ready
    /\ \E env \in EnvsFor(settings,
                         add_fsmonitor(istate, settings, NoEnv, now,
                                       <<>>, 0).refreshes) :
         Step("add", env, add_fsmonitor(istate, settings, env, now, <<>>, 0))

Remove ==
    /\ Ready
    /\ Step("remove", NoEnv, Outcome(remove_fsmonitor(istate), <<>>, 0))

Tweak ==
    /\ Ready
    /\ \E env \in EnvsFor(settings,
                         tweak_fsmonitor(istate, settings, NoEnv,
                                         now).refreshes) :
         Step("tweak", env, tweak_fsmonitor(istate, settings, env, now))

Next == ReadExt \/ Refresh \/ Add \/ Remove \/ Tweak

Spec == Init /\ [][Next]_vars

(***************************************************************************)
(* Writing the index and reading it back.                                  *)
(***************************************************************************)
MaxCodecEntries == 3    \* most cache entries of an index that is written

\* The caches of an index about to be written: any CE_FSMONITOR_VALID and
\* CE_REMOVE bits.
CodecNames ==
    { [k \in 1..n |-> <<97 + k>>] : n \in 0..MaxCodecEntries }

CodecCaches ==
    UNION { { [k \in 1..Len(names) |->
                 [name |-> names[k], ce_flags |-> f[k]]] :
              f \in [1..Len(names) -> SUBSET {CE_FSMONITOR_VALID, CE_REMOVE}] } :
            names \in CodecNames }

CodecTokens == {<<>>, Str_T, Decimal(10)}

InitCodec ==
    /\ settings = [fsmonitor_mode |-> FSMONITOR_MODE_IPC,
                   hookcfg |-> [set |-> FALSE, value |-> 0]]
    /\ istate \in
         { [Fresh(c, [present |-> FALSE, use_fsmonitor |-> FALSE], split)
              EXCEPT !.fsmonitor_last_update = tok] :
             c \in CodecCaches, tok \in CodecTokens, split \in BOOLEAN }
    /\ now = 10
    /\ sb = <<>>
    /\ last = History("init", NoEnv, <<>>, istate, 0, <<>>)
    /\ reported = {}

\* do_write_index() fills the bitmap when a token is stored ...
Fill ==
    /\ ~istate.bug
    /\ last.op \in {"init", "readback"}
    /\ istate.fsmonitor_last_update # NULL
    /\ istate' = fill_fsmonitor_bitmap(istate)
    /\ last' = History("fill", NoEnv, <<>>, istate, 0, <<>>)
    /\ UNCHANGED <<settings, now, sb, reported>>

\* ... and then writes the extension.
Write ==
    /\ ~istate.bug
    /\ last.op = "fill"
    /\ istate' = write_fsmonitor_extension(istate).is
    /\ sb' = write_fsmonitor_extension(istate).sb
    /\ last' = History("write", NoEnv, <<>>, istate, 0, <<>>)
    /\ UNCHANGED <<settings, now, reported>>

\* The entries of the index file written from cache: the CE_REMOVE entries
\* are left out and the in-memory flags are not stored.
Reloaded(cache) ==
    LET live == SelectSeq(cache, LAMBDA ce : CE_REMOVE \notin ce.ce_flags)
    IN [k \in 1..Len(live) |-> [live[k] EXCEPT !.ce_flags = {}]]

\* The written index is read into a fresh index_state.
ReadBack ==
    /\ ~istate.bug
    /\ last.op = "write"
    /\ ReadStep("readback", sb,
                read_fsmonitor_extension(
                    Fresh(Reloaded(istate.cache), istate.untracked,
                          istate.split_index),
                    sb, Len(sb)))

NextCodec == Fill \/ Write \/ ReadBack

SpecCodec == InitCodec /\ [][NextCodec]_vars

(***************************************************************************)
(* Reading the extension of an index file that may be damaged.  The bytes  *)
(* at data are mem, of which the first sz are the extension: what follows  *)
(* them in the file is mapped too.                                         *)
(***************************************************************************)
Str_TTTTT == <<84, 84, 84, 84, 84>>

\* The blob with the byte at offset off replaced.
Damaged(blob, off, byte) == [blob EXCEPT ![off + 1] = byte]

\* The bytes an index file may hold where its extension is: the blobs that
\* were written, one with a longer token, one with the version word 3, and
\* two whose ewah_size word is one more and one less than the bitmap takes.
Extensions ==
    Blobs
        \cup { BlobV2(Str_TTTTT, EwahOf({})),
               Damaged(BlobV2(Str_T, EwahOf({0})), 3, 3),
               Damaged(BlobV2(Str_T, EwahOf({0})), 9, 6),
               Damaged(BlobV2(Str_T, EwahOf({0})), 9, 4) }

\* One past the last offset ewah_read_mmap(bitmap, data + off, len) reads:
\* the bit_size word when len holds it, the bits when len holds them.
EwahEnd(data, off, len) ==
    IF len < 4 THEN off
    ELSE IF len < 4 + get_be32(data, off) THEN off + 4
    ELSE off + 4 + get_be32(data, off)

\* One past the last offset lines 80-84 read: the ewah_size word at off and
\* what ewah_read_mmap reads after it.
ReadBitmapEnd(data, off) ==
    EwahEnd(data, off + 4, get_be32(data, off))

\* One past the last offset of data that read_fsmonitor_extension(istate,
\* data, sz) reads; 0 when it reads nothing.  The token of a version 2 blob
\* is read up to and with its NUL.
ReadEnd(data, sz) ==
    IF sz < 4 + 1 + 4 THEN 0
    ELSE IF get_be32(data, 0) = INDEX_EXTENSION_VERSION1
    THEN ReadBitmapEnd(data, 12)
    ELSE IF get_be32(data, 0) = INDEX_EXTENSION_VERSION2
    THEN ReadBitmapEnd(data, 4 + Len(CStr(data, 4)) + 1)
    ELSE 4

InitRead ==
    /\ settings = [fsmonitor_mode |-> FSMONITOR_MODE_IPC,
                   hookcfg |-> [set |-> FALSE, value |-> 0]]
    /\ istate \in
         { Fresh(c, [present |-> u, use_fsmonitor |-> FALSE], split) :
             c \in { x \in Caches : \A k \in 1..Len(x) : x[k].ce_flags = {} },
             u \in BOOLEAN, split \in BOOLEAN }
    /\ now = 10
    /\ sb = <<>>
    /\ last = History("init", NoEnv, <<>>, istate, 0, <<>>)
    /\ reported = {}

\* The index is loaded and its extension of sz bytes read; sb keeps those
\* sz bytes and last.data all of mem.
ReadMem ==
    /\ last.op = "init"
    /\ \E mem \in Extensions :
         \E sz \in 0..Len(mem) :
             /\ sb' = SubSeq(mem, 1, sz)
             /\ istate' = read_fsmonitor_extension(istate, mem, sz).is
             /\ last' = History("read", NoEnv, <<>>, istate,
                                read_fsmonitor_extension(istate, mem, sz).ret,
                                mem)
             /\ UNCHANGED <<settings, now, reported>>

NextRead == ReadMem

SpecRead == InitRead /\ [][NextRead]_vars

(***************************************************************************)
(* Properties.  The refresh_fsmonitor calls of the last operation are      *)
(* last.refreshes; each records the index state it was called with (entry) *)
(* and the one it returned (is).                                           *)
(***************************************************************************)
Enabled == settings.fsmonitor_mode # FSMONITOR_MODE_DISABLED

RefreshCalls == { last.refreshes[k] : k \in 1..Len(last.refreshes) }

Positions(is) == 0..(cache_nr(is) - 1)

NoneValid(is) == \A i \in Positions(is) : ~Valid(is, i)

UsesFsmonitor(is) == is.untracked.present /\ is.untracked.use_fsmonitor

\* The last query of the call r failed.
QueryFailed(r) ==
    r.ran /\ r.calls # <<>> /\ ~r.calls[Len(r.calls)].ok

\* p without its trailing '/', if it has one.
NonSlashed(p) ==
    IF p # <<>> /\ p[Len(p)] = SLASH THEN SubSeq(p, 1, Len(p) - 1) ELSE p

\* The number of paths of a response whose paths start at offset from.
PathCount(buf, from) ==
    Cardinality({ k \in from..(Len(buf) - 1) : buf[k + 1] = NUL })
        + (IF from < Len(buf) /\ buf[Len(buf)] # NUL THEN 1 ELSE 0)

\* C1: in an enabled mode with a stored token, every entry whose path the
\* provider reported in this session has CE_FSMONITOR_VALID clear, after
\* any sequence of operations: no later operation sets it again.
C1_SessionInvariant ==
    (Enabled /\ ~istate.bug /\ istate.fsmonitor_last_update # NULL)
        => \A i \in reported : ~Valid(istate, i)

\* C2: when refresh_fsmonitor received a response that ends with the bytes
\* NUL '/' NUL, no entry has CE_FSMONITOR_VALID on return and the untracked
\* cache does not use fsmonitor.
C2_TrivialResponse ==
    \A r \in RefreshCalls :
        (Received(r) /\ fsmonitor_is_trivial_response(r.query_result))
            => NoneValid(r.is) /\ ~UsesFsmonitor(r.is)

\* C3 as stated: after refresh_fsmonitor applied the paths of a response,
\* every entry whose path starts with the non-slashed form of one of the
\* paths has CE_FSMONITOR_VALID clear.
C3_NonSlashedPrefix ==
    \A r \in RefreshCalls :
        (Received(r) /\ r.branch = "A")
            => \A p \in ResponsePaths(r.query_result, PathsFrom(r)) :
                 NonSlashed(p) # <<>>
                     => \A i \in Positions(r.is) :
                          starts_with(r.is.cache[i + 1].name, NonSlashed(p))
                              => ~Valid(r.is, i)

\* C3 amended: after refresh_fsmonitor applied the paths of a response,
\* for every path p that ends with '/' every entry whose path starts with
\* p, the '/' included, has CE_FSMONITOR_VALID clear, and for every other
\* path p the entry whose path is p has it clear.
C3_PathInvalidation ==
    \A r \in RefreshCalls :
        (Received(r) /\ r.branch = "A")
            => \A p \in ResponsePaths(r.query_result, PathsFrom(r)) :
                 p # <<>>
                     => \A i \in Positions(r.is) :
                          (IF p[Len(p)] = SLASH
                           THEN starts_with(r.is.cache[i + 1].name, p)
                           ELSE r.is.cache[i + 1].name = p)
                              => ~Valid(r.is, i)

\* The response names "a/" and then "ab", and the index holds "a/b" and
\* "ab", both valid before: both are cleared.
C3_Witness ==
    \E r \in RefreshCalls :
        /\ Received(r) /\ r.branch = "A"
        /\ ResponsePaths(r.query_result, PathsFrom(r)) = {Str_a_slash, Str_ab}
        /\ cache_nr(r.entry) = 2
        /\ Valid(r.entry, 0) /\ Valid(r.entry, 1)
        /\ NoneValid(r.is)

\* C4: when the last query of refresh_fsmonitor failed, the call returns
\* with CE_FSMONITOR_VALID clear on every entry, the untracked cache not
\* using fsmonitor, and FSMONITOR_CHANGED in cache_changed if an entry was
\* valid before.
C4_FailedQueryInvalidatesAll ==
    \A r \in RefreshCalls :
        QueryFailed(r)
            => /\ ~r.is.bug
               /\ NoneValid(r.is)
               /\ ~UsesFsmonitor(r.is)
               /\ (~NoneValid(r.entry)
                     => FSMONITOR_CHANGED \in r.is.cache_changed)

\* Both hook versions were tried and failed, on an index with a valid
\* entry, an unchanged cache and an untracked cache that used fsmonitor.
C4_Witness ==
    \E r \in RefreshCalls :
        /\ QueryFailed(r)
        /\ Len(r.calls) = 2
        /\ ~NoneValid(r.entry)
        /\ FSMONITOR_CHANGED \notin r.entry.cache_changed
        /\ r.entry.untracked.present
        /\ FSMONITOR_CHANGED \in r.is.cache_changed

\* C5: in HOOK mode with no configured hook version and a prior token, when
\* the version 2 hook succeeds with a response that starts with NUL, the
\* hook is run a second time with version 1 and the token stored is the
\* decimal timestamp taken before the query.
C5_EmptyTokenFallback ==
    \A r \in RefreshCalls :
        (/\ r.ran
         /\ settings.fsmonitor_mode = FSMONITOR_MODE_HOOK
         /\ fsmonitor_hook_version(settings.hookcfg) = -1
         /\ r.entry.fsmonitor_last_update # NULL
         /\ r.calls # <<>>
         /\ r.calls[1] = Call(HOOK_INTERFACE_VERSION2, TRUE)
         /\ r.query_result # <<>>
         /\ r.query_result[1] = NUL)
            => /\ Len(r.calls) = 2
               /\ r.calls[2].version = HOOK_INTERFACE_VERSION1
               /\ r.is.fsmonitor_last_update = Decimal(r.last_update)

\* C6: a refresh_fsmonitor call made when fsmonitor_has_run_once is set,
\* directly or by add_fsmonitor or tweak_fsmonitor, queries nothing and
\* leaves the index state as it is.
C6_RefreshOncePerSession ==
    \A r \in RefreshCalls :
        r.entry.fsmonitor_has_run_once
            => r.calls = <<>> /\ r.is = r.entry

\* tweak_fsmonitor calls refresh_fsmonitor again, with a token stored and
\* a valid entry, in a session that has refreshed.
C6_Witness ==
    /\ last.op = "tweak"
    /\ Enabled
    /\ \E r \in RefreshCalls :
         /\ r.entry.fsmonitor_has_run_once
         /\ r.entry.fsmonitor_last_update # NULL
         /\ ~NoneValid(r.entry)

\* C7: after a tweak_fsmonitor that returns, in an enabled mode and with a
\* restored dirty bitmap, every position that is a set bit of the bitmap
\* has CE_FSMONITOR_VALID clear.
C7_ReconcileMonotone ==
    (/\ last.op = "tweak"
     /\ Enabled
     /\ ~istate.bug
     /\ last.pre.fsmonitor_dirty # NoBitmap)
        => \A pos \in last.pre.fsmonitor_dirty.bits : ~Valid(istate, pos)

\* The bitmap holds bit 0 only, the provider answered, and entry 1 is
\* valid afterwards.
C7_Witness ==
    /\ last.op = "tweak"
    /\ Enabled
    /\ ~istate.bug
    /\ last.pre.fsmonitor_dirty.bits = {0}
    /\ cache_nr(istate) = 2
    /\ ~Valid(istate, 0) /\ Valid(istate, 1)
    /\ \E r \in RefreshCalls : Received(r)

\* C8: when refresh_fsmonitor applied the paths of a response of more than
\* 100 paths, FSMONITOR_CHANGED is in cache_changed on return.
C8_ForceUpdateThreshold ==
    \A r \in RefreshCalls :
        (/\ Received(r)
         /\ r.branch = "A"
         /\ PathCount(r.query_result, PathsFrom(r))
              > fsmonitor_force_update_threshold)
            => FSMONITOR_CHANGED \in r.is.cache_changed

\* 101 paths that name no entry of the index, whose cache was unchanged.
C8_Witness ==
    \E r \in RefreshCalls :
        /\ Received(r)
        /\ r.branch = "A"
        /\ PathCount(r.query_result, PathsFrom(r))
             = fsmonitor_force_update_threshold + 1
        /\ r.entry.cache_changed = {}
        /\ r.is.cache = r.entry.cache
        /\ FSMONITOR_CHANGED \in r.is.cache_changed

\* The live entries of cache, in order.
Live(cache) == SelectSeq(cache, LAMBDA ce : CE_REMOVE \notin ce.ce_flags)

\* C9: reading back what fill_fsmonitor_bitmap and
\* write_fsmonitor_extension wrote succeeds and restores the token and a
\* bitmap whose set bits are the positions, among the live entries, of the
\* entries that were not valid.
C9_ExtensionRoundTrip ==
    last.op = "readback"
        => /\ last.ret = 0
           /\ ~istate.bug
           /\ istate.fsmonitor_last_update = last.pre.fsmonitor_last_update
           /\ istate.fsmonitor_dirty # NoBitmap
           /\ istate.fsmonitor_dirty.bits =
                { pos \in 0..(Len(Live(last.pre.cache)) - 1) :
                    CE_FSMONITOR_VALID
                        \notin Live(last.pre.cache)[pos + 1].ce_flags }

\* A removed entry comes before a live entry that is not valid, which comes
\* before a live valid one; the token is "T".
C9_Witness ==
    /\ last.op = "readback"
    /\ last.pre.fsmonitor_last_update = Str_T
    /\ cache_nr(last.pre) = 3
    /\ last.pre.cache[1].ce_flags = {CE_REMOVE}
    /\ last.pre.cache[2].ce_flags = {}
    /\ last.pre.cache[3].ce_flags = {CE_FSMONITOR_VALID}
    /\ istate.fsmonitor_dirty.bits = {0}

\* C10: the token stored when refresh_fsmonitor has run its body is the
\* token of the response, the decimal timestamp taken before the query, or
\* "builtin:fake", and is not the empty string.
C10_StoredTokenNeverEmpty ==
    \A r \in RefreshCalls :
        r.ran
            => /\ r.is.fsmonitor_last_update
                    \in {CStr(r.query_result, 0), BuiltinFake}
                          \cup (IF r.last_update >= 0
                                THEN {Decimal(r.last_update)} ELSE {})
               /\ r.is.fsmonitor_last_update # <<>>

\* C11: after add_fsmonitor on an index with no token, FSMONITOR_CHANGED is
\* in cache_changed, a token is stored and no entry has
\* CE_FSMONITOR_VALID; on an index with a token, add_fsmonitor changes
\* nothing and calls nothing.
C11_Attach ==
    last.op = "add"
        => IF last.pre.fsmonitor_last_update = NULL
           THEN /\ FSMONITOR_CHANGED \in istate.cache_changed
                /\ istate.fsmonitor_last_update # NULL
                /\ NoneValid(istate)
           ELSE istate = last.pre /\ last.refreshes = <<>>

\* add_fsmonitor on an index with no token, a valid entry and an unchanged
\* cache, and the provider answered the refresh it ran.
C11_Witness ==
    /\ last.op = "add"
    /\ last.pre.fsmonitor_last_update = NULL
    /\ ~NoneValid(last.pre)
    /\ FSMONITOR_CHANGED \notin last.pre.cache_changed
    /\ \E r \in RefreshCalls : Received(r) /\ r.branch = "A"

\* What disabling leaves of the index state is: no token, FSMONITOR_CHANGED
\* added when there was a token, and nothing else changed.
Detached(is) ==
    [is EXCEPT !.fsmonitor_last_update = NULL,
               !.cache_changed =
                   IF is.fsmonitor_last_update # NULL
                   THEN @ \cup {FSMONITOR_CHANGED} ELSE @]

\* C12: remove_fsmonitor, and tweak_fsmonitor in the mode DISABLED, leave
\* the flags of every entry as they are: they drop the token, set
\* FSMONITOR_CHANGED exactly when there was a token, and (tweak_fsmonitor)
\* discard the restored bitmap; nothing else changes.
C12_DisablingKeepsFlags ==
    /\ last.op = "remove" => istate = Detached(last.pre)
    /\ (last.op = "tweak" /\ ~Enabled)
          => istate = [Detached(last.pre) EXCEPT !.fsmonitor_dirty = NoBitmap]

\* tweak_fsmonitor in the mode DISABLED on an index with a token, a
\* restored bitmap with a set bit, and an unchanged cache.
C12_Witness ==
    /\ last.op = "tweak"
    /\ ~Enabled
    /\ last.pre.fsmonitor_last_update # NULL
    /\ last.pre.fsmonitor_dirty.bits # {}
    /\ FSMONITOR_CHANGED \notin last.pre.cache_changed
    /\ cache_nr(istate) = 2
    /\ istate.fsmonitor_dirty = NoBitmap

\* C13: on a split index nothing calls BUG() for a bitmap larger than the
\* index; on an index that is not split, a restored bitmap whose bit_size
\* exceeds cache_nr has made BUG() be called.
C13_SplitIndexSuppression ==
    /\ istate.split_index => ~istate.bug
    /\ (/\ ~istate.split_index
        /\ istate.fsmonitor_dirty # NoBitmap
        /\ istate.fsmonitor_dirty.bit_size > cache_nr(istate))
          => istate.bug

\* C14: when refresh_fsmonitor received a response with no paths (no bytes
\* at all, or a token and nothing after it) from a query that succeeded, no
\* entry has CE_FSMONITOR_VALID on return and the untracked cache does not
\* use fsmonitor.
C14_ZeroPathResponse ==
    \A r \in RefreshCalls :
        (/\ Received(r)
         /\ PathCount(r.query_result, PathsFrom(r)) = 0)
            => NoneValid(r.is) /\ ~UsesFsmonitor(r.is)

\* The versions of the hook invocations of the call r, in order.
Versions(r) == [c \in 1..Len(r.calls) |-> r.calls[c].version]

\* C15: in HOOK mode one refresh_fsmonitor invokes the hook at most twice;
\* with version 2 only when a token was stored and the configured version
\* is 2 or unspecified; with version 1 only when a token was stored and
\* the version is pinned to 1, or is unspecified and the version 2
\* invocation before it failed; never version 2 after version 1; not at
\* all when no token was stored.
C15_HookNegotiation ==
    \A r \in RefreshCalls :
        (r.ran /\ settings.fsmonitor_mode = FSMONITOR_MODE_HOOK)
            => LET hv == fsmonitor_hook_version(settings.hookcfg)
               IN IF r.entry.fsmonitor_last_update = NULL
                  THEN r.calls = <<>>
                  ELSE IF hv = HOOK_INTERFACE_VERSION1
                  THEN Versions(r) = <<HOOK_INTERFACE_VERSION1>>
                  ELSE IF hv = HOOK_INTERFACE_VERSION2
                  THEN Versions(r) = <<HOOK_INTERFACE_VERSION2>>
                  ELSE \/ /\ Versions(r) = <<HOOK_INTERFACE_VERSION2>>
                          /\ r.calls[1].ok
                       \/ /\ Versions(r) = <<HOOK_INTERFACE_VERSION2,
                                             HOOK_INTERFACE_VERSION1>>
                          /\ ~r.calls[1].ok

\* The configured version is not 1 or 2, the version 2 hook fails and the
\* version 1 hook answers.
C15_Witness ==
    \E r \in RefreshCalls :
        /\ settings.hookcfg.set
        /\ fsmonitor_hook_version(settings.hookcfg) = -1
        /\ r.calls = <<Call(HOOK_INTERFACE_VERSION2, FALSE),
                       Call(HOOK_INTERFACE_VERSION1, TRUE)>>
        /\ r.branch = "A"

\* The offsets at which a path of buf starts that has another path after
\* it, the paths starting at offset from.
SwapStarts(buf, from) ==
    { j \in from..(Len(buf) - 1) :
        /\ j = from \/ buf[j] = NUL
        /\ NextNul(buf, j) + 1 < Len(buf) }

\* buf with the path that starts at offset j and the path after it
\* exchanged.
Swapped(buf, j) ==
    SubSeq(buf, 1, j)
        \o CStr(buf, NextNul(buf, j) + 1) \o <<NUL>>
        \o CStr(buf, j) \o <<NUL>>
        \o SubSeq(buf, NextNul(buf, NextNul(buf, j) + 1) + 2, Len(buf))

\* What the call r leaves of the index when its response is buf instead,
\* everything else being the same.
Reapplied(r, buf) ==
    apply_results(r.entry,
                  [r.entry EXCEPT !.fsmonitor_has_run_once = TRUE],
                  Locals(r.hook_version, r.query_success, buf, r.bol,
                         r.is.fsmonitor_last_update, r.calls, r.last_update),
                  last.env.oob).is

\* C16: exchanging two neighbouring paths of a successful response (and so
\* permuting its paths in any way) changes neither the CE_FSMONITOR_VALID
\* bits, nor cache_changed, nor untracked.use_fsmonitor on return.
C16_PathOrderIrrelevant ==
    \A r \in RefreshCalls :
        (Received(r) /\ r.query_success)
            => \A j \in SwapStarts(r.query_result, PathsFrom(r)) :
                 CStr(r.query_result, j)
                     # CStr(r.query_result, NextNul(r.query_result, j) + 1)
                 => /\ Reapplied(r, Swapped(r.query_result, j)).cache
                         = r.is.cache
                    /\ Reapplied(r, Swapped(r.query_result, j)).cache_changed
                         = r.is.cache_changed
                    /\ Reapplied(r, Swapped(r.query_result, j)).untracked
                         = r.is.untracked

\* TRUE when the path p of a response names the entry called name: p is
\* name, or p ends with '/' and name starts with p.
Names_(p, name) ==
    IF p # <<>> /\ p[Len(p)] = SLASH THEN starts_with(name, p) ELSE name = p

\* C17: when refresh_fsmonitor applied the paths of a successful response
\* of at most 100 paths, cache_changed is as before, the flags of an entry
\* changed only if one of the paths names it, and the token stored is the
\* token of the response.
C17_SmallResponseFrame ==
    \A r \in RefreshCalls :
        (/\ Received(r)
         /\ r.branch = "A"
         /\ PathCount(r.query_result, PathsFrom(r))
              <= fsmonitor_force_update_threshold)
            => /\ r.is.cache_changed = r.entry.cache_changed
               /\ \A i \in Positions(r.is) :
                    r.is.cache[i + 1] # r.entry.cache[i + 1]
                        => \E p \in ResponsePaths(r.query_result,
                                                  PathsFrom(r)) :
                             Names_(p, r.entry.cache[i + 1].name)
               /\ r.is.fsmonitor_last_update = CStr(r.query_result, 0)

\* C18: when read_fsmonitor_extension returned an error, the token and the
\* dirty bitmap of the index are the ones it had before the call.
C18_FailedReadLeavesIndex ==
    (last.op = "read" /\ last.ret # 0)
        => /\ istate.fsmonitor_last_update = last.pre.fsmonitor_last_update
           /\ istate.fsmonitor_dirty = last.pre.fsmonitor_dirty

\* C19: read_fsmonitor_extension, when it returned, returned an error or
\* read only bytes at offsets below sz (sb holds the sz bytes of the blob).
C19_ReadInsideInput ==
    (last.op = "read" /\ ~istate.bug)
        => \/ last.ret # 0
           \/ ReadEnd(last.data, Len(sb)) <= Len(sb)

\* C20: after a tweak_fsmonitor call that returned, the index holds no
\* restored dirty bitmap, and it holds a token exactly when the mode is
\* FSMONITOR_MODE_HOOK or FSMONITOR_MODE_IPC.
C20_ReconcilePostcondition ==
    (last.op = "tweak" /\ ~istate.bug)
        => /\ istate.fsmonitor_dirty = NoBitmap
           /\ (istate.fsmonitor_last_update # NULL) <=> Enabled

C20_Witness ==
    /\ last.op = "tweak"
    /\ ~istate.bug
    /\ Enabled
    /\ last.pre.fsmonitor_dirty # NoBitmap
    /\ last.pre.fsmonitor_dirty.bits # {}
    /\ last.pre.fsmonitor_last_update # NULL
    /\ \E r \in RefreshCalls : Received(r)
    /\ istate.fsmonitor_dirty = NoBitmap

====
